---------------------------- MODULE Spec2Model ----------------------------
(***************************************************************************)
(* The change-request pipeline of smarty-agent (the authenticated,         *)
(* rate-limited Bitbucket variant of the server), as a state machine.      *)
(*                                                                         *)
(* One action per run-to-completion step of the Node event loop: the       *)
(* http.createServer callback (the gate), the request's "end" handler up to *)
(* its first await, the continuation after each await, and the steps of    *)
(* the external processes (the coding agent works in the shared working    *)
(* directory while the server is free to handle other requests).           *)
(*                                                                         *)
(* Strings are sequences of one-character strings, so that slugify,        *)
(* startsWith and the branch-name template are computed, not assumed.      *)
(***************************************************************************)
EXTENDS Integers, Sequences, FiniteSets, TLC

\* ------------------------------------------------------------------ bounds
\* Requests that arrive in one behaviour of the pipeline specification.
MaxArrivals == 2
\* Commits the agents make in one behaviour.
MaxCommits == 1
\* Requests that arrive in one behaviour of the gate specification.
MaxGateArrivals == 6
\* Days the clock advances in one behaviour of the gate specification.
MaxDays == 1

\* -------------------------------------------------------- program constants
RATE_LIMIT_WINDOW_MS == 24 * 60 * 60 * 1000
RATE_LIMIT_MAX_REQUESTS == 5

\* ----------------------------------------------------------------- strings
LowerOf ==
    [c \in {"A", "B", "F", "X"} |->
        CASE c = "A" -> "a" [] c = "B" -> "b" [] c = "F" -> "f" [] c = "X" -> "x"]

\* String.prototype.toLowerCase, one character at a time.
toLowerCase(text) ==
    [i \in 1..Len(text) |-> IF text[i] \in DOMAIN LowerOf THEN LowerOf[text[i]] ELSE text[i]]

\* \w of a JavaScript regular expression: [A-Za-z0-9_].
IsWordChar(c) ==
    c \in {"a", "b", "c", "d", "e", "f", "g", "h", "i", "j", "k", "l", "m",
           "n", "o", "p", "q", "r", "s", "t", "u", "v", "w", "x", "y", "z",
           "A", "B", "F", "X",
           "0", "1", "2", "3", "4", "5", "6", "7", "8", "9", "_"}

\* \s of a JavaScript regular expression (the members used here).
IsSpace(c) == c \in {" ", "\t", "\n"}

RECURSIVE DropWhile(_, _)
DropWhile(text, drop) ==
    IF text # <<>> /\ Head(text) \in drop THEN DropWhile(Tail(text), drop) ELSE text

RECURSIVE DropEndWhile(_, _)
DropEndWhile(text, drop) ==
    IF text # <<>> /\ text[Len(text)] \in drop
    THEN DropEndWhile(SubSeq(text, 1, Len(text) - 1), drop)
    ELSE text

\* String.prototype.trim
trim(text) == DropEndWhile(DropWhile(text, {" ", "\t", "\n"}), {" ", "\t", "\n"})

\* .replace(/[^\w\s-]/g, "")
RECURSIVE StripOther(_)
StripOther(text) ==
    IF text = <<>> THEN <<>>
    ELSE IF IsWordChar(Head(text)) \/ IsSpace(Head(text)) \/ Head(text) = "-"
         THEN <<Head(text)>> \o StripOther(Tail(text))
         ELSE StripOther(Tail(text))

\* .replace(/[\s_-]+/g, "-")
RECURSIVE CollapseRuns(_)
CollapseRuns(text) ==
    IF text = <<>> THEN <<>>
    ELSE IF IsSpace(Head(text)) \/ Head(text) \in {"_", "-"}
         THEN <<"-">> \o CollapseRuns(DropWhile(Tail(text), {" ", "\t", "\n", "_", "-"}))
         ELSE <<Head(text)>> \o CollapseRuns(Tail(text))

\* Mutant: only the hyphens at the end are removed.
TrimHyphens_EndOnly(text) == DropEndWhile(text, {"-"})

\* .replace(/^-+|-+$/g, "")
TrimHyphens(text) == DropEndWhile(DropWhile(text, {"-"}), {"-"})

\* String.prototype.substring(0, n)
substring(text, n) == SubSeq(text, 1, IF Len(text) < n THEN Len(text) ELSE n)

\* slugify(text) of the Bitbucket server (no length bound of its own).
slugify(text) == TrimHyphens(CollapseRuns(StripOther(trim(toLowerCase(text)))))

\* slugify(text) of the GitHub server: the same chain, then .substring(0, 50).
slugify_GitHub(text) == substring(slugify(text), 50)

\* String.prototype.startsWith
startsWith(text, prefix) ==
    Len(text) >= Len(prefix) /\ SubSeq(text, 1, Len(prefix)) = prefix

\* Number to decimal string, as a template literal does it.
RECURSIVE ToDigits(_)
ToDigits(n) ==
    IF n < 10 THEN <<<<"0", "1", "2", "3", "4", "5", "6", "7", "8", "9">>[n + 1]>>
    ELSE ToDigits(n \div 10) \o <<<<"0", "1", "2", "3", "4", "5", "6", "7", "8", "9">>[(n % 10) + 1]>>

CLAUDE_PREFIX == <<"c", "l", "a", "u", "d", "e", "/">>
MASTER == <<"m", "a", "s", "t", "e", "r">>

\* ------------------------------------------------------------------ inputs
\* Two requests can be in flight at the same time; an answered request's slot
\* is taken by the next request.
Slots == {1, 2}
IPs == {"10.0.0.1", "10.0.0.2"}
PipelineIPs == {"10.0.0.1"}
API_KEY == "secret"
\* The Authorization header: absent, or <<scheme, token>>.
NoHeader == <<>>
AuthHeaders == {NoHeader, <<"Bearer ", "secret">>, <<"Bearer ", "wrong">>, <<"Basic ", "secret">>}
\* Method and path of a request, as the routing tells them apart.
Routes == {<<"OPTIONS", "/">>, <<"GET", "/health">>, <<"POST", "/">>, <<"GET", "/">>,
           <<"POST", "/health">>}
\* The requests that arrive: every header on POST /, and one request for each
\* other way through the server callback.
Incoming ==
    {m \in Routes \X AuthHeaders :
        \/ m[1] = <<"POST", "/">>
        \/ m[2] = NoHeader /\ m[1] \in {<<"OPTIONS", "/">>, <<"GET", "/health">>}
        \/ m[2] = <<"Bearer ", API_KEY>> /\ m[1] \in {<<"GET", "/">>, <<"POST", "/health">>}}
\* The execInRepo call that throws in a handler step, if any.
EndFaults(body) ==
    IF body.parsed /\ body.type = "string" /\ body.request # <<>>
    THEN {"none", "fetch", "checkout", "reset"}
    ELSE {"none"}
ExitFaults(outcome) ==
    IF outcome = "0" THEN {"none", "rev-parse", "rev-list", "push"} ELSE {"none"}

\* The values Date.now() takes in the gate specification: around each window boundary.
GateTimes == {d * RATE_LIMIT_WINDOW_MS + e : d \in 0..MaxDays, e \in 0..1}
\* The values Date.now() takes in the pipeline specification.
Times == {0, 1}

\* Request texts (the "request" field when it is a string).
Texts == {<<"F", "i", "x", " ", "_", "a", "!">>}
\* What JSON.parse(body) yields: a parse failure, or the request and images fields.
GoodImage == [name |-> "a.png", data |-> "base64"]
BadImage == [name |-> "b.png", data |-> "undefined"]
ImageLists == {<<>>, <<GoodImage>>, <<GoodImage, BadImage>>}
\* Attachments whose name has a path separator in it: one that climbs out of
\* the attachment directory, one that names a directory below it.
ClimbingImage == [name |-> "../c.png", data |-> "base64"]
NestedImage == [name |-> "x/d.png", data |-> "base64"]
PathBodies ==
    {[parsed |-> TRUE, type |-> "string", request |-> t, images |-> im] :
        t \in Texts, im \in {<<ClimbingImage>>, <<GoodImage, NestedImage>>}}
Bodies ==
    {[parsed |-> FALSE, type |-> "undefined", request |-> <<>>, images |-> <<>>]}
    \cup {[parsed |-> TRUE, type |-> "undefined", request |-> <<>>, images |-> <<>>],
          [parsed |-> TRUE, type |-> "number", request |-> <<"4", "2">>, images |-> <<>>],
          [parsed |-> TRUE, type |-> "string", request |-> <<>>, images |-> <<>>]}
    \cup {[parsed |-> TRUE, type |-> "string", request |-> t, images |-> im] :
             t \in Texts, im \in ImageLists}

\* ------------------------------------------------------------------- state
VARIABLES
    now,           \* Date.now()
    arrivals,      \* requests received so far
    rateLimitMap,  \* Map: client IP -> {windowStart, count}
    checkLog,      \* history: per IP, the rate-limit checks made in its current window
                   \*   and whether a check for it was ever denied
    ready,         \* the .clone-complete marker exists in REPO_PATH
    HEAD,          \* working directory: the checked-out branch
    branches,      \* working directory: local branch -> its commits beyond origin/master
    commits,       \* commits made so far (the next commit is commits + 1)
    worktree,      \* working directory: what lies in it besides the checked-out commit
    remote,        \* origin: pushed branch -> its commits
    prs,           \* the forge: source branches of the pull requests, in order
    tempDir,       \* REPO_PATH/.claude-temp-images exists
    tempFiles,     \* files saveImages wrote: name given -> slot of the request that wrote it
    req            \* per slot: the request in flight and what its handler has done

gate == <<now, arrivals, rateLimitMap, checkLog>>
repo == <<ready, HEAD, branches, commits, worktree>>
forge == <<remote, prs>>
temp == <<tempDir, tempFiles>>
vars == <<now, arrivals, rateLimitMap, checkLog, ready, HEAD, branches, commits, worktree,
          remote, prs, tempDir, tempFiles, req>>

NoFiles == <<>>
Idle ==
    [pc |-> "idle", request |-> <<>>, images |-> <<>>,
     imagePaths |-> <<>>, branchName |-> <<>>, currentBranch |-> <<>>,
     commitCount |-> -1, resp |-> <<>>, log |-> <<>>,
     namedAt |-> -1]      \* history: the Date.now() its branch name was built from

Init ==
    /\ now = 0
    /\ arrivals = 0
    /\ rateLimitMap = <<>>
    /\ checkLog = [ip \in IPs |-> [checks |-> 0, denied |-> FALSE, restarted |-> FALSE,
                       tracked |-> FALSE, allowedAt |-> <<>>]]
    /\ ready = FALSE
    /\ HEAD = MASTER
    /\ branches = (MASTER :> {})
    /\ commits = 0
    /\ worktree = {}
    /\ remote = <<>>
    /\ prs = <<>>
    /\ tempDir = FALSE
    /\ tempFiles = NoFiles
    /\ req = [r \in Slots |-> Idle]

\* Mutant: the handler does not return after it has answered.
Respond_GoesOn(rec, status, error) ==
    [rec EXCEPT !.resp = Append(@, [status |-> status, error |-> error,
                                    pr |-> 0, branch |-> <<>>])]

\* res.writeHead(status); res.end(body): one more response on the request.
Respond(rec, status, error) ==
    [rec EXCEPT !.resp = Append(@, [status |-> status, error |-> error,
                                    pr |-> 0, branch |-> <<>>]),
                !.pc = "done"]

Did(rec, stage) == [rec EXCEPT !.log = Append(@, stage)]

\* ------------------------------------------------------------------- gate
\* Mutant: the scheme is checked, the token is not compared.
isAuthenticated_AnyBearer(authHeader) ==
    IF authHeader = NoHeader \/ authHeader[1] # "Bearer " THEN FALSE ELSE TRUE

\* isAuthenticated(req)
isAuthenticated(authHeader) ==
    IF authHeader = NoHeader \/ authHeader[1] # "Bearer "
    THEN FALSE
    ELSE authHeader[2] = API_KEY

\* Mutant: a window of a week instead of a day.
WindowExpired_Week(record) == now - record.windowStart > RATE_LIMIT_WINDOW_MS * 7

\* Mutant: a window ends as soon as the clock has moved.
WindowExpired_Early(record) == now - record.windowStart > 0

\* now - record.windowStart > RATE_LIMIT_WINDOW_MS
WindowExpired(record) == now - record.windowStart > RATE_LIMIT_WINDOW_MS

\* Mutant: > for >=, which lets one request too many through.
AtLimit_OffByOne(record) == record.count > RATE_LIMIT_MAX_REQUESTS

\* record.count >= RATE_LIMIT_MAX_REQUESTS
AtLimit(record) == record.count >= RATE_LIMIT_MAX_REQUESTS

\* Mutant: the new window does not count the request that opens it.
NewWindow_CountZero(ip) == (ip :> [windowStart |-> now, count |-> 0]) @@ rateLimitMap

\* rateLimitMap.set(ip, { windowStart: now, count: 1 })
NewWindow(ip) == (ip :> [windowStart |-> now, count |-> 1]) @@ rateLimitMap

\* Mutant: a denied check is counted as well.
checkRateLimit_CountsDenied(ip) ==
    IF ip \notin DOMAIN rateLimitMap \/ WindowExpired(rateLimitMap[ip])
    THEN [allowed |-> TRUE, map |-> NewWindow(ip)]
    ELSE IF AtLimit(rateLimitMap[ip])
    THEN [allowed |-> FALSE, map |-> [rateLimitMap EXCEPT ![ip].count = @ + 1]]
    ELSE [allowed |-> TRUE, map |-> [rateLimitMap EXCEPT ![ip].count = @ + 1]]

\* checkRateLimit(ip): whether the request is allowed, and the table it leaves.
checkRateLimit(ip) ==
    IF ip \notin DOMAIN rateLimitMap \/ WindowExpired(rateLimitMap[ip])
    THEN [allowed |-> TRUE, map |-> NewWindow(ip)]
    ELSE IF AtLimit(rateLimitMap[ip])
    THEN [allowed |-> FALSE, map |-> rateLimitMap]
    ELSE [allowed |-> TRUE, map |-> [rateLimitMap EXCEPT ![ip].count = @ + 1]]

\* History of a check for ip made now: its place in the window it falls in
\* (a check later than the window length after windowStart opens a new one).
Checked(ip, allowed) ==
    [checkLog EXCEPT
        ![ip].checks = IF ip \in DOMAIN rateLimitMap
                          /\ now - rateLimitMap[ip].windowStart <= RATE_LIMIT_WINDOW_MS
                       THEN @ + 1 ELSE 1,
        ![ip].denied = @ \/ ~allowed,
        ![ip].restarted = @ \/ (/\ ip \in DOMAIN rateLimitMap
                                /\ now - rateLimitMap[ip].windowStart > RATE_LIMIT_WINDOW_MS),
        \* where it is kept: the times of all the allowed checks
        ![ip].allowedAt = IF checkLog[ip].tracked /\ allowed THEN Append(@, now) ELSE @]

\* A new request takes the first free slot; the records of the requests
\* answered before it arrived are dropped.
Accept(r, rec) ==
    [q \in Slots |-> IF q = r THEN rec
                     ELSE IF req[q].pc = "done" THEN Idle ELSE req[q]]

\* Mutant: the health endpoint is routed after the token check and the rate limit.
Server_HealthBehindGate(r, method, path, authHeader, clientIp) ==
    /\ req[r].pc \in {"idle", "done"}
    /\ \A q \in Slots : q < r => req[q].pc \notin {"idle", "done"}
    /\ arrivals' = arrivals + 1
    /\ LET rl == checkRateLimit(clientIp)
       IN IF method = "OPTIONS"
          THEN /\ req' = Accept(r, Respond(Idle, 204, ""))
               /\ UNCHANGED <<rateLimitMap, checkLog>>
          ELSE IF ~isAuthenticated(authHeader)
          THEN /\ req' = Accept(r, Respond(Idle, 401, "Unauthorized"))
               /\ UNCHANGED <<rateLimitMap, checkLog>>
          ELSE /\ rateLimitMap' = rl.map
               /\ checkLog' = Checked(clientIp, rl.allowed)
               /\ IF ~rl.allowed
                  THEN req' = Accept(r, Respond(Did(Idle, "auth"), 429, "Too many requests"))
                  ELSE IF method = "GET" /\ path = "/health"
                  THEN req' = Accept(r, Respond(Idle, 200, ""))
                  ELSE IF method = "POST" /\ path = "/"
                  THEN req' = Accept(r, [Did(Did(Idle, "auth"), "rate") EXCEPT !.pc = "body"])
                  ELSE req' = Accept(r, Respond(Did(Did(Idle, "auth"), "rate"), 404, "Not found"))
    /\ UNCHANGED <<now, repo, forge, temp>>

\* Mutant: an unknown method or path is answered before the rate limit is consulted.
Server_RoutesFirst(r, method, path, authHeader, clientIp) ==
    /\ req[r].pc \in {"idle", "done"}
    /\ \A q \in Slots : q < r => req[q].pc \notin {"idle", "done"}
    /\ arrivals' = arrivals + 1
    /\ LET rl == checkRateLimit(clientIp)
       IN IF method = "OPTIONS"
          THEN /\ req' = Accept(r, Respond(Idle, 204, ""))
               /\ UNCHANGED <<rateLimitMap, checkLog>>
          ELSE IF method = "GET" /\ path = "/health"
          THEN /\ req' = Accept(r, Respond(Idle, 200, ""))
               /\ UNCHANGED <<rateLimitMap, checkLog>>
          ELSE IF ~isAuthenticated(authHeader)
          THEN /\ req' = Accept(r, Respond(Idle, 401, "Unauthorized"))
               /\ UNCHANGED <<rateLimitMap, checkLog>>
          ELSE IF ~(method = "POST" /\ path = "/")
          THEN /\ req' = Accept(r, Respond(Did(Did(Idle, "auth"), "rate"), 404, "Not found"))
               /\ UNCHANGED <<rateLimitMap, checkLog>>
          ELSE /\ rateLimitMap' = rl.map
               /\ checkLog' = Checked(clientIp, rl.allowed)
               /\ IF ~rl.allowed
                  THEN req' = Accept(r, Respond(Did(Idle, "auth"), 429, "Too many requests"))
                  ELSE IF method = "POST" /\ path = "/"
                  THEN req' = Accept(r, [Did(Did(Idle, "auth"), "rate") EXCEPT !.pc = "body"])
                  ELSE req' = Accept(r, Respond(Did(Did(Idle, "auth"), "rate"), 404, "Not found"))
    /\ UNCHANGED <<now, repo, forge, temp>>

\* The http.createServer callback: CORS headers, preflight, health, the
\* bearer-token check, the rate limit, then routing.
Server(r, method, path, authHeader, clientIp) ==
    /\ req[r].pc \in {"idle", "done"}
    /\ \A q \in Slots : q < r => req[q].pc \notin {"idle", "done"}
    /\ arrivals' = arrivals + 1
    /\ LET rl == checkRateLimit(clientIp)
       IN IF method = "OPTIONS"
          THEN /\ req' = Accept(r, Respond(Idle, 204, ""))
               /\ UNCHANGED <<rateLimitMap, checkLog>>
          ELSE IF method = "GET" /\ path = "/health"
          THEN /\ req' = Accept(r, Respond(Idle, 200, ""))
               /\ UNCHANGED <<rateLimitMap, checkLog>>
          ELSE IF ~isAuthenticated(authHeader)
          THEN /\ req' = Accept(r, Respond(Idle, 401, "Unauthorized"))
               /\ UNCHANGED <<rateLimitMap, checkLog>>
          ELSE /\ rateLimitMap' = rl.map
               /\ checkLog' = Checked(clientIp, rl.allowed)
               /\ IF ~rl.allowed
                  THEN req' = Accept(r, Respond(Did(Idle, "auth"), 429, "Too many requests"))
                  ELSE IF method = "POST" /\ path = "/"
                  THEN req' = Accept(r, [Did(Did(Idle, "auth"), "rate") EXCEPT !.pc = "body"])
                  ELSE req' = Accept(r, Respond(Did(Did(Idle, "auth"), "rate"), 404, "Not found"))
    /\ UNCHANGED <<now, repo, forge, temp>>

\* Time passes.
Tick(t) ==
    /\ t > now
    /\ now' = t
    /\ UNCHANGED <<arrivals, rateLimitMap, checkLog, repo, forge, temp, req>>

\* The container's clone finishes and writes the .clone-complete marker.
CloneComplete ==
    /\ ~ready
    /\ ready' = TRUE
    /\ UNCHANGED <<gate, HEAD, branches, commits, worktree, forge, temp, req>>

\* --------------------------------------------------------------- pipeline
\* What a handler step reads and writes besides its own request.
World ==
    [tempDir |-> tempDir, tempFiles |-> tempFiles, HEAD |-> HEAD,
     branches |-> branches, worktree |-> worktree, remote |-> remote, prs |-> prs]

Apply(r, out) ==
    /\ req' = [req EXCEPT ![r] = out.rec]
    /\ tempDir' = out.w.tempDir
    /\ tempFiles' = out.w.tempFiles
    /\ HEAD' = out.w.HEAD
    /\ branches' = out.w.branches
    /\ worktree' = out.w.worktree
    /\ remote' = out.w.remote
    /\ prs' = out.w.prs

\* Mutant: the marker is not looked at.
isRepoReady_Always == TRUE

\* isRepoReady()
isRepoReady == ready

\* img.name || `image-${index}${ext}` with ext ".png" when there is no name.
DefaultNames == <<"image-0.png", "image-1.png", "image-2.png">>
ImageFileName(img, index) == IF img.name # "" THEN img.name ELSE DefaultNames[index + 1]

\* The directories involved, as path components.
REPO_PATH == <<"repo">>
TEMP_DIR == REPO_PATH \o <<".claude-temp-images">>

\* A file name split at "/" (the names that have a separator in them).
SplitName(name) ==
    CASE name = "../c.png" -> <<"..", "c.png">>
      [] name = "x/d.png" -> <<"x", "d.png">>
      [] OTHER -> <<name>>

\* path.join(dir, name): the components are appended and ".." climbs one up.
RECURSIVE pathJoin(_, _)
pathJoin(dir, components) ==
    IF components = <<>> THEN dir
    ELSE IF Head(components) = ".."
    THEN pathJoin(IF dir = <<>> THEN dir ELSE SubSeq(dir, 1, Len(dir) - 1), Tail(components))
    ELSE pathJoin(Append(dir, Head(components)), Tail(components))

\* path.join(tempDir, filename)
FilePath(name) == pathJoin(TEMP_DIR, SplitName(name))
ParentOf(path) == SubSeq(path, 1, Len(path) - 1)
InsideTempDir(name) ==
    /\ Len(FilePath(name)) > Len(TEMP_DIR)
    /\ SubSeq(FilePath(name), 1, Len(TEMP_DIR)) = TEMP_DIR

\* images.forEach of saveImages: Buffer.from(img.data, "base64") throws on a
\* missing data field and fs.writeFileSync on a directory that does not
\* exist, after the earlier files were written.
RECURSIVE WriteImages(_, _, _, _, _)
WriteImages(images, index, files, paths, owner) ==
    IF images = <<>> THEN [threw |-> FALSE, files |-> files, paths |-> paths]
    ELSE IF Head(images).data = "undefined"
    THEN [threw |-> TRUE, files |-> files, paths |-> paths]
    ELSE IF ParentOf(FilePath(ImageFileName(Head(images), index))) \notin {TEMP_DIR, REPO_PATH}
    THEN [threw |-> TRUE, files |-> files, paths |-> paths]
    ELSE WriteImages(Tail(images), index + 1,
                     (ImageFileName(Head(images), index) :> owner) @@ files,
                     Append(paths, ImageFileName(Head(images), index)), owner)

\* saveImages(images): creates the directory when it is missing, then writes.
saveImages(images, w, owner) ==
    LET wrote == WriteImages(images, 0, w.tempFiles, <<>>, owner)
    IN [threw |-> wrote.threw, paths |-> wrote.paths,
        w |-> [w EXCEPT !.tempDir = TRUE, !.tempFiles = wrote.files]]

\* cleanupImages(): fs.rmSync(tempDir, {recursive}) takes what is inside tempDir.
cleanupImages(w) ==
    IF w.tempDir
    THEN [w EXCEPT !.tempDir = FALSE,
                   !.tempFiles =
                       IF \A name \in DOMAIN w.tempFiles : InsideTempDir(name) THEN NoFiles
                       ELSE [name \in {n \in DOMAIN w.tempFiles : ~InsideTempDir(n)} |->
                                w.tempFiles[name]]]
    ELSE w

\* The finally block of the "end" handler.
Finally(out) ==
    IF Len(out.rec.imagePaths) > 0
    THEN [rec |-> Did(out.rec, "cleanup"), w |-> cleanupImages(out.w)]
    ELSE out

\* Mutant: the catch block answers as for a client error.
Catch_ClientError(rec, w, message) == Finally([rec |-> Respond(rec, 400, message), w |-> w])

\* The catch block: 500 with the error's message, then finally.
Catch(rec, w, message) == Finally([rec |-> Respond(rec, 500, message), w |-> w])

\* Mutant: a failing git reset is not noticed.
Synchronize_ResetUnchecked(rec, w, fail) ==
    IF fail = "fetch"
    THEN [threw |-> TRUE, rec |-> Did(rec, "fetch"), w |-> w]
    ELSE IF fail = "checkout"
    THEN [threw |-> TRUE, rec |-> Did(Did(rec, "fetch"), "checkout"), w |-> w]
    ELSE [threw |-> FALSE, rec |-> Did(Did(Did(rec, "fetch"), "checkout"), "reset"),
          w |-> IF fail = "reset" THEN [w EXCEPT !.HEAD = MASTER]
                ELSE [w EXCEPT !.HEAD = MASTER, !.branches[MASTER] = {},
                    !.worktree = @ \ {"modified"}]]

\* The three execInRepo calls of the synchronizer; fail names the one that throws.
\* git checkout master carries uncommitted edits along (or refuses: "checkout"),
\* git reset --hard origin/master discards them and leaves untracked files alone.
Synchronize(rec, w, fail) ==
    IF fail = "fetch"
    THEN [threw |-> TRUE, rec |-> Did(rec, "fetch"), w |-> w]
    ELSE IF fail = "checkout"
    THEN [threw |-> TRUE, rec |-> Did(Did(rec, "fetch"), "checkout"), w |-> w]
    ELSE IF fail = "reset"
    THEN [threw |-> TRUE, rec |-> Did(Did(Did(rec, "fetch"), "checkout"), "reset"),
          w |-> [w EXCEPT !.HEAD = MASTER]]
    ELSE [threw |-> FALSE, rec |-> Did(Did(Did(rec, "fetch"), "checkout"), "reset"),
          w |-> [w EXCEPT !.HEAD = MASTER, !.branches[MASTER] = {},
                    !.worktree = @ \ {"modified"}]]

\* req.on("end"): from the readiness check to the first await (generateBranchName).
EndHandler(r, rec, w, body, fail) ==
    IF ~isRepoReady
    THEN [rec |-> Respond(rec, 503, "Repository is still cloning"), w |-> w]
    ELSE IF ~body.parsed
    THEN Catch(Did(rec, "ready"), w, "JSON.parse")
    ELSE IF body.type # "string" \/ body.request = <<>>
    THEN Finally([rec |-> Respond(Did(rec, "ready"), 400, "Missing or invalid request field"),
                  w |-> w])
    ELSE LET rec1 == [Did(rec, "ready") EXCEPT !.request = body.request,
                                               !.images = body.images]
             saved == saveImages(body.images, w, r)
         IN IF Len(body.images) > 0 /\ saved.threw
            THEN Catch(Did(rec1, "save"), saved.w, "saveImages")
            ELSE LET rec2 == IF Len(body.images) > 0
                             THEN [Did(rec1, "save") EXCEPT !.imagePaths = saved.paths]
                             ELSE rec1
                     w2 == IF Len(body.images) > 0 THEN saved.w ELSE w
                     sync == Synchronize(rec2, w2, fail)
                 IN IF sync.threw
                    THEN Catch(sync.rec, sync.w, "git")
                    ELSE [rec |-> [Did(sync.rec, "name") EXCEPT !.pc = "naming"],
                          w |-> sync.w]

\* Mutant: the handler waits while another request is between its
\* synchronizer and its response (a lock on the working directory).
EndHandlerStarts_Locked(r) ==
    /\ req[r].pc = "body"
    /\ \A q \in Slots \ {r} : req[q].pc \notin {"naming", "agent", "pr"}

\* req.on("end", async () => { ... }): runs as soon as the body has arrived;
\* nothing is acquired before the handler touches the working directory.
EndHandlerStarts(r) == req[r].pc = "body"

End(r, body, fail) ==
    /\ EndHandlerStarts(r)
    /\ Apply(r, EndHandler(r, req[r], World, body, fail))
    /\ UNCHANGED <<gate, ready, commits>>

\* What the naming subprocess prints when it exits 0: a usable name, or
\* nothing that survives slugify. (The usable name is the one the fallback
\* also yields for the request text below, which keeps the branch names few.)
NameOutputs == {<<" ", "F", "i", "x", "-", "a", "\n">>, <<"!">>}

\* How the naming subprocess ends: the code of its "close" event, or
\* SPAWN_ERROR for an "error" event (the process could not be started).
SPAWN_ERROR == -1
NameCodes == {0, 1, SPAWN_ERROR}

\* Mutant: the output of the subprocess is used whatever its exit code is.
generateBranchName_IgnoresCode(request, code, stdout) ==
    IF substring(slugify(trim(stdout)), 40) # <<>>
    THEN substring(slugify(trim(stdout)), 40)
    ELSE substring(slugify(request), 30)

\* generateBranchName(request): the value the promise resolves with.
generateBranchName(request, code, stdout) ==
    IF code = SPAWN_ERROR
    THEN substring(slugify(request), 30)
    ELSE IF code = 0
    THEN IF substring(slugify(trim(stdout)), 40) # <<>>
         THEN substring(slugify(trim(stdout)), 40)
         ELSE substring(slugify(request), 30)
    ELSE substring(slugify(request), 30)

\* git checkout -b "<name>": refused when the branch exists.
CheckoutNewBranch(w, name) ==
    [w EXCEPT !.branches = (name :> w.branches[w.HEAD]) @@ w.branches, !.HEAD = name]

\* Mutant: the agent is started before the branch is created.
NameHandler_AgentFirst(rec, w, code, stdout, fail) ==
    LET slug == generateBranchName(rec.request, code, stdout)
        branchName == CLAUDE_PREFIX \o slug \o <<"-">> \o ToDigits(now)
    IN IF fail \/ branchName \in DOMAIN w.branches
       THEN Catch([Did(Did(rec, "agent"), "branch") EXCEPT !.namedAt = now], w, "git")
       ELSE [rec |-> [Did(Did(rec, "agent"), "branch") EXCEPT
                         !.branchName = branchName, !.pc = "agent", !.namedAt = now],
             w |-> CheckoutNewBranch(w, branchName)]

\* Mutant: the name carries the clock in units of ten milliseconds.
NameHandler_CoarseClock(rec, w, code, stdout, fail) ==
    LET slug == generateBranchName(rec.request, code, stdout)
        branchName == CLAUDE_PREFIX \o slug \o <<"-">> \o ToDigits(now \div 10)
    IN IF fail \/ branchName \in DOMAIN w.branches
       THEN Catch([Did(rec, "branch") EXCEPT !.namedAt = now], w, "git")
       ELSE [rec |-> [Did(Did(rec, "branch"), "agent") EXCEPT
                         !.branchName = branchName, !.pc = "agent", !.namedAt = now],
             w |-> CheckoutNewBranch(w, branchName)]

\* After await generateBranchName: create the branch and start the agent.
NameHandler(rec, w, code, stdout, fail) ==
    LET slug == generateBranchName(rec.request, code, stdout)
        branchName == CLAUDE_PREFIX \o slug \o <<"-">> \o ToDigits(now)
    IN IF fail \/ branchName \in DOMAIN w.branches
       THEN Catch([Did(rec, "branch") EXCEPT !.namedAt = now], w, "git")
       ELSE [rec |-> [Did(Did(rec, "branch"), "agent") EXCEPT
                         !.branchName = branchName, !.pc = "agent", !.namedAt = now],
             w |-> CheckoutNewBranch(w, branchName)]

NameDone(r, code, stdout, fail) ==
    /\ req[r].pc = "naming"
    /\ Apply(r, NameHandler(req[r], World, code, stdout, fail))
    /\ UNCHANGED <<gate, ready, commits>>

\* ------------------------------------------------------------------ agent
\* A branch of its own that the agent may create and switch to.
SIDE_BRANCH == <<"w", "i", "p">>

\* The agent process of request r commits on whatever branch is checked out.
AgentCommit(r) ==
    /\ req[r].pc = "agent"
    /\ commits' = commits + 1
    /\ branches' = [branches EXCEPT ![HEAD] = @ \cup {commits + 1}]
    /\ UNCHANGED <<gate, ready, HEAD, worktree, forge, temp, req>>

\* The agent process of request r switches branch (creating it when new).
AgentCheckout(r, b) ==
    /\ req[r].pc = "agent"
    /\ b # HEAD
    /\ HEAD' = b
    /\ branches' = IF b \in DOMAIN branches THEN branches
                   ELSE (b :> branches[HEAD]) @@ branches
    /\ UNCHANGED <<gate, ready, commits, worktree, forge, temp, req>>

\* What the agent can leave in the working directory without committing it:
\* an edit to a tracked file, or a new file that git does not track.
TreeChanges == {"modified", "untracked"}

\* The agent process of request r edits or creates a file and does not commit it.
AgentWrite(r, change) ==
    /\ req[r].pc = "agent"
    /\ change \notin worktree
    /\ worktree' = worktree \cup {change}
    /\ UNCHANGED <<gate, ready, HEAD, branches, commits, forge, temp, req>>

\* Mutant: the commits of the branch are counted, not those beyond master.
CommitCount_All(w, branch) == Cardinality(w.branches[branch])

\* git rev-list --count master..<branch>
CommitCount(w, branch) == Cardinality(w.branches[branch] \ w.branches[MASTER])

\* git push -u origin "<branch>"
Push(w, branch) == [w EXCEPT !.remote = (branch :> w.branches[branch]) @@ w.remote]

\* How the agent process ends: the code of its "close" event ("null" when a
\* signal killed it), or an "error" event (it could not be spawned).
AgentOutcomes == {"0", "1", "null", "error"}

\* Mutant: every "close" resolves, whatever the exit code.
runClaudeCode_CloseResolves(outcome) == IF outcome = "error" THEN "reject" ELSE "resolve"

\* runClaudeCode: proc.on("close") resolves on code 0 and rejects otherwise;
\* proc.on("error") rejects.
runClaudeCode(outcome) == IF outcome = "0" THEN "resolve" ELSE "reject"

\* getCurrentBranch(): git rev-parse --abbrev-ref HEAD
getCurrentBranch(w) == w.HEAD

\* Mutant: the check only refuses the baseline branch.
IsClaudeBranch_NotMaster(branch) == branch # MASTER

\* currentBranch.startsWith("claude/")
IsClaudeBranch(branch) == startsWith(branch, CLAUDE_PREFIX)

\* Mutant: the count is compared as a string with the number 0, never equal.
NoCommits_Never(commitCount) == FALSE

\* parseInt(commitCount, 10) === 0
NoCommits(commitCount) == commitCount = 0

\* Mutant: the branch the request created is pushed, not the one it verified.
AgentHandler_PushesOwnName(rec, w, outcome, fail) ==
    IF runClaudeCode(outcome) = "reject"
    THEN Catch(rec, w, IF outcome = "error" THEN "spawn" ELSE "Claude Code exited")
    ELSE IF fail = "rev-parse"
    THEN Catch(Did(rec, "getbranch"), w, "git")
    ELSE LET currentBranch == getCurrentBranch(w)
             rec1 == [Did(rec, "getbranch") EXCEPT !.currentBranch = currentBranch]
         IN IF ~IsClaudeBranch(currentBranch)
            THEN Catch(rec1, w, "Safety check failed")
            ELSE IF fail = "rev-list"
            THEN Catch(Did(rec1, "count"), w, "git")
            ELSE LET rec2 == [Did(rec1, "count") EXCEPT
                                 !.commitCount = CommitCount(w, currentBranch)]
                 IN IF NoCommits(rec2.commitCount)
                    THEN Finally([rec |-> Respond(rec2, 400, "No changes were committed"),
                                  w |-> w])
                    ELSE IF fail = "push"
                    THEN Catch(Did(rec2, "push"), w, "git")
                    ELSE [rec |-> [Did(Did(rec2, "push"), "pr") EXCEPT !.pc = "pr"],
                          w |-> Push(w, rec.branchName)]

\* After await runClaudeCode: the catch on a rejected promise, or the safety
\* check, the commit count, the push and the start of the forge request.
\* fail names the execInRepo call that throws, if any.
AgentHandler(rec, w, outcome, fail) ==
    IF runClaudeCode(outcome) = "reject"
    THEN Catch(rec, w, IF outcome = "error" THEN "spawn" ELSE "Claude Code exited")
    ELSE IF fail = "rev-parse"
    THEN Catch(Did(rec, "getbranch"), w, "git")
    ELSE LET currentBranch == getCurrentBranch(w)
             rec1 == [Did(rec, "getbranch") EXCEPT !.currentBranch = currentBranch]
         IN IF ~IsClaudeBranch(currentBranch)
            THEN Catch(rec1, w, "Safety check failed")
            ELSE IF fail = "rev-list"
            THEN Catch(Did(rec1, "count"), w, "git")
            ELSE LET rec2 == [Did(rec1, "count") EXCEPT
                                 !.commitCount = CommitCount(w, currentBranch)]
                 IN IF NoCommits(rec2.commitCount)
                    THEN Finally([rec |-> Respond(rec2, 400, "No changes were committed"),
                                  w |-> w])
                    ELSE IF fail = "push"
                    THEN Catch(Did(rec2, "push"), w, "git")
                    ELSE [rec |-> [Did(Did(rec2, "push"), "pr") EXCEPT !.pc = "pr"],
                          w |-> Push(w, currentBranch)]

\* The agent process of request r ends and the awaiting handler continues.
AgentExit(r, outcome, fail) ==
    /\ req[r].pc = "agent"
    /\ Apply(r, AgentHandler(req[r], World, outcome, fail))
    /\ UNCHANGED <<gate, ready, commits>>

\* How the pull-request call ends: a 2xx answer with the link, a non-2xx
\* answer, or fetch() rejecting before any answer.
PROutcomes == {"created", "rejected", "network"}

\* Mutant: the result of the pull-request call is not looked at.
PRHandler_AlwaysOk(rec, w, outcome) ==
    LET w1 == IF outcome = "created" THEN [w EXCEPT !.prs = Append(@, rec.currentBranch)] ELSE w
        rec1 == [rec EXCEPT !.pc = "done",
                            !.resp = Append(@, [status |-> 200, error |-> "",
                                                pr |-> Len(w1.prs),
                                                branch |-> rec.currentBranch])]
    IN Finally([rec |-> rec1, w |-> w1])

\* Mutant: a failed pull-request call deletes the pushed branch again.
PRHandler_Rollback(rec, w, outcome) ==
    IF outcome = "created"
    THEN LET w1 == [w EXCEPT !.prs = Append(@, rec.currentBranch)]
             rec1 == [rec EXCEPT !.pc = "done",
                                 !.resp = Append(@, [status |-> 200, error |-> "",
                                                     pr |-> Len(w1.prs),
                                                     branch |-> rec.currentBranch])]
         IN Finally([rec |-> rec1, w |-> w1])
    ELSE Catch(rec,
               [w EXCEPT !.remote = [b \in DOMAIN w.remote \ {rec.currentBranch} |-> w.remote[b]]],
               IF outcome = "rejected" THEN "Bitbucket API error" ELSE "fetch failed")

\* Mutant: a rejected fetch() is not caught, and the request is never answered.
PRHandler_Uncaught(rec, w, outcome) ==
    IF outcome = "created"
    THEN LET w1 == [w EXCEPT !.prs = Append(@, rec.currentBranch)]
             rec1 == [rec EXCEPT !.pc = "done",
                                 !.resp = Append(@, [status |-> 200, error |-> "",
                                                     pr |-> Len(w1.prs),
                                                     branch |-> rec.currentBranch])]
         IN Finally([rec |-> rec1, w |-> w1])
    ELSE IF outcome = "network"
    THEN [rec |-> [rec EXCEPT !.pc = "hung"], w |-> w]
    ELSE Catch(rec, w, "Bitbucket API error")

\* After await createBitbucketPR: 200 with the link, or the catch.
PRHandler(rec, w, outcome) ==
    IF outcome = "created"
    THEN LET w1 == [w EXCEPT !.prs = Append(@, rec.currentBranch)]
             rec1 == [rec EXCEPT !.pc = "done",
                                 !.resp = Append(@, [status |-> 200, error |-> "",
                                                     pr |-> Len(w1.prs),
                                                     branch |-> rec.currentBranch])]
         IN Finally([rec |-> rec1, w |-> w1])
    ELSE Catch(rec, w, IF outcome = "rejected" THEN "Bitbucket API error" ELSE "fetch failed")

PRDone(r, outcome) ==
    /\ req[r].pc = "pr"
    /\ Apply(r, PRHandler(req[r], World, outcome))
    /\ UNCHANGED <<gate, ready, commits>>

Next ==
    \/ /\ arrivals < MaxArrivals
       /\ \E r \in Slots, m \in Incoming, ip \in PipelineIPs :
             Server(r, m[1][1], m[1][2], m[2], ip)
    \/ \E t \in Times : Tick(t)
    \/ CloneComplete
    \/ \E r \in Slots, b \in Bodies : \E f \in EndFaults(b) : End(r, b, f)
    \/ \E r \in Slots, c \in {0, 1}, o \in NameOutputs, f \in BOOLEAN :
          NameDone(r, c, o, f)
    \/ /\ commits < MaxCommits
       /\ \E r \in Slots : AgentCommit(r)
    \/ \E r \in Slots : AgentCheckout(r, SIDE_BRANCH)
    \/ \E r \in Slots, o \in AgentOutcomes : \E f \in ExitFaults(o) : AgentExit(r, o, f)
    \/ \E r \in Slots, o \in PROutcomes : PRDone(r, o)

Spec == Init /\ [][Next]_vars

\* The naming subprocess closes or fails to start: weak fairness of NameDone,
\* written out with the enabling condition of NameDone (req[r].pc = "naming",
\* every such step leaves that position) in the place of ENABLED.
NameSettles(r) ==
    \/ []<>(req[r].pc # "naming")
    \/ []<><<\E c \in {0, 1}, o \in NameOutputs, f \in BOOLEAN : NameDone(r, c, o, f)>>_vars

\* The service when every external call (naming subprocess, agent
\* subprocess, forge request) eventually returns or fails: each awaited
\* promise of a request in flight is settled at some time.
Settles(r) ==
    /\ NameSettles(r)
    /\ WF_vars(\E o \in AgentOutcomes : \E f \in ExitFaults(o) : AgentExit(r, o, f))
    /\ WF_vars(\E o \in PROutcomes : PRDone(r, o))

\* Change requests of one client, with and without an attachment.
MaxLiveArrivals == 2
LiveBodies ==
    {[parsed |-> TRUE, type |-> "string", request |-> t, images |-> im] :
        t \in Texts, im \in {<<>>, <<GoodImage>>}}
LiveNext ==
    \/ /\ arrivals < MaxLiveArrivals
       /\ \E r \in Slots, ip \in PipelineIPs : Server(r, "POST", "/", <<"Bearer ", API_KEY>>, ip)
    \/ \E t \in Times : Tick(t)
    \/ CloneComplete
    \/ \E r \in Slots, b \in LiveBodies : \E f \in EndFaults(b) : End(r, b, f)
    \/ \E r \in Slots, c \in {0, 1}, o \in NameOutputs, f \in BOOLEAN :
          NameDone(r, c, o, f)
    \/ /\ commits < MaxCommits
       /\ \E r \in Slots : AgentCommit(r)
    \/ \E r \in Slots, o \in AgentOutcomes : \E f \in ExitFaults(o) : AgentExit(r, o, f)
    \/ \E r \in Slots, o \in PROutcomes : PRDone(r, o)

LiveSpec == Init /\ [][LiveNext]_vars /\ \A r \in Slots : Settles(r)

\* The service with agents that also leave uncommitted work behind.
TreeNext ==
    \/ Next
    \/ \E r \in Slots, k \in TreeChanges : AgentWrite(r, k)
    \/ \E r \in Slots, b \in PathBodies : End(r, b, "none")

TreeSpec == Init /\ [][TreeNext]_vars

\* The gate while the repository is still cloning: every POST / that passes is
\* answered 503 by the "end" handler, so arrivals and the clock drive the table.
GateNext ==
    \/ /\ arrivals < MaxGateArrivals
       /\ \E r \in Slots, m \in Incoming, ip \in IPs :
             Server(r, m[1][1], m[1][2], m[2], ip)
    \/ \E t \in GateTimes : Tick(t)
    \/ \E r \in Slots, b \in Bodies : End(r, b, "none")

GateSpec == Init /\ [][GateNext]_vars

\* One client sending change requests around a window boundary while the
\* repository is cloning, with the times of its allowed checks kept.
MaxWindowArrivals == 11
WindowClient == "10.0.0.1"
WindowInit ==
    /\ now = 0
    /\ arrivals = 0
    /\ rateLimitMap = <<>>
    /\ checkLog = [ip \in IPs |-> [checks |-> 0, denied |-> FALSE, restarted |-> FALSE,
                                   tracked |-> ip = WindowClient, allowedAt |-> <<>>]]
    /\ ready = FALSE
    /\ HEAD = MASTER
    /\ branches = (MASTER :> {})
    /\ commits = 0
    /\ worktree = {}
    /\ remote = <<>>
    /\ prs = <<>>
    /\ tempDir = FALSE
    /\ tempFiles = NoFiles
    /\ req = [r \in Slots |-> Idle]

WindowNext ==
    \/ /\ arrivals < MaxWindowArrivals
       /\ \E r \in Slots : Server(r, "POST", "/", <<"Bearer ", API_KEY>>, WindowClient)
    \/ \E t \in GateTimes : Tick(t)
    \/ \E r \in Slots, b \in Bodies : End(r, b, "none")

WindowSpec == WindowInit /\ [][WindowNext]_vars

\* ----------------------------------------------------------- branch naming
\* Two change requests from one client have passed the gate and the
\* synchronizer and wait for their naming subprocess; the clock moves on
\* while each of them gets its branch.
RECURSIVE Repeat(_, _)
Repeat(unit, n) == IF n = 0 THEN <<>> ELSE unit \o Repeat(unit, n - 1)

\* Request texts: punctuation and capitals, digits and hyphens, separators
\* at both ends, nothing that survives slugify, and a text whose slug is
\* longer than every truncation.
NameTexts ==
    Texts \cup {<<"a", "-", "1">>, <<"a">>, <<"!", "!">>,
                <<" ", "-", "_", "X", " ", "2", " ">>,
                Repeat(<<"a", "b", " ">>, 18)}
\* What the naming subprocess prints: as above, a name with a digit, and a
\* name longer than the 40 characters that are kept of it.
NameStdouts ==
    NameOutputs \cup {<<"a", "-", "1", "\n">>, Repeat(<<"a", "b", "c", "-">>, 11)}
\* The values Date.now() takes while branches are named.
NameTimes == {0, 1, 2, 12}

\* const branchName = `claude/${slug}-${Date.now()}` of the GitHub server.
branchName_GitHub(request, t) ==
    CLAUDE_PREFIX \o slugify_GitHub(request) \o <<"-">> \o ToDigits(t)

NameInit ==
    /\ now = 0
    /\ arrivals = 2
    /\ rateLimitMap = ("10.0.0.1" :> [windowStart |-> 0, count |-> 2])
    /\ checkLog = [ip \in IPs |->
                      IF ip = "10.0.0.1"
                      THEN [checks |-> 2, denied |-> FALSE, restarted |-> FALSE,
                            tracked |-> FALSE, allowedAt |-> <<>>]
                      ELSE [checks |-> 0, denied |-> FALSE, restarted |-> FALSE,
                       tracked |-> FALSE, allowedAt |-> <<>>]]
    /\ ready = TRUE
    /\ HEAD = MASTER
    /\ branches = (MASTER :> {})
    /\ commits = 0
    /\ worktree = {}
    /\ remote = <<>>
    /\ prs = <<>>
    /\ tempDir = FALSE
    /\ tempFiles = NoFiles
    /\ \E t1 \in NameTexts, t2 \in NameTexts :
          req = [r \in Slots |->
                    [Idle EXCEPT !.pc = "naming",
                                 !.request = IF r = 1 THEN t1 ELSE t2,
                                 !.log = <<"auth", "rate", "ready", "fetch", "checkout",
                                           "reset", "name">>]]

NameNext ==
    \/ \E t \in NameTimes : Tick(t)
    \/ \E r \in Slots, c \in NameCodes, o \in NameStdouts : NameDone(r, c, o, FALSE)

NameSpec == NameInit /\ [][NameNext]_vars

\* ================================================================== claims
LogHas(rec, stage) == \E i \in DOMAIN rec.log : rec.log[i] = stage
Answer(status, error) == <<[status |-> status, error |-> error, pr |-> 0, branch |-> <<>>]>>
\* Commits on the checked-out branch that are not on the local master.
Ahead == Cardinality(branches[HEAD] \ branches[MASTER])
ValidHeader == <<"Bearer ", "secret">>
Preflight(rt) == rt[1] = "OPTIONS"
Health(rt) == rt = <<"GET", "/health">>

\* C1: a git push is issued only by the step in which the same request has
\* just read the checked-out branch, found that its name starts with claude/,
\* and counted more than zero commits on it that are not on master; that
\* branch is the one pushed, and nothing else ever changes the remote.
C1_PushOnlyVerifiedBranch ==
    [][/\ \A r \in Slots :
             (req[r].pc = "agent" /\ LogHas(req'[r], "push")) =>
                /\ startsWith(HEAD, CLAUDE_PREFIX)
                /\ Ahead > 0
                /\ req'[r].currentBranch = HEAD
                /\ req'[r].commitCount = Ahead
                /\ remote' \in {remote, (HEAD :> branches[HEAD]) @@ remote}
       /\ remote' # remote =>
             \E r \in Slots : req[r].pc = "agent" /\ req'[r].pc = "pr"
                              /\ LogHas(req'[r], "push")]_vars

C1_Witness ==
    \E r \in Slots :
        /\ req[r].pc = "pr"
        /\ req[r].commitCount > 0
        /\ req[r].currentBranch \in DOMAIN remote
        /\ startsWith(req[r].currentBranch, CLAUDE_PREFIX)

\* C2: when the agent exits 0 and the checked-out branch (which the handler
\* reads) does not start with claude/, the request is answered 500 with the
\* safety-check error, and neither the push nor the pull-request call is
\* made, whatever the number of commits on that branch.
C2_NonClaudeBranchIs500 ==
    [][\A r \in Slots, f \in {"none", "rev-list", "push"} :
          (AgentExit(r, "0", f) /\ ~startsWith(HEAD, CLAUDE_PREFIX)) =>
             /\ req'[r].pc = "done"
             /\ req'[r].resp = Answer(500, "Safety check failed")
             /\ ~LogHas(req'[r], "count")
             /\ ~LogHas(req'[r], "push")
             /\ ~LogHas(req'[r], "pr")
             /\ UNCHANGED <<remote, prs>>]_vars

C2_Witness ==
    \E r \in Slots :
        /\ req[r].pc = "done"
        /\ req[r].resp = Answer(500, "Safety check failed")
        /\ req[r].currentBranch = SIDE_BRANCH
        /\ branches[SIDE_BRANCH] \ branches[MASTER] # {}

\* C3 as stated: when the agent exits 0 and the checked-out branch has no
\* commit that is not on master, the request is answered 400 and neither the
\* push nor the pull-request call is made.
C3_Original_ZeroCommitsIs400 ==
    [][\A r \in Slots, f \in {"none", "push"} :
          (AgentExit(r, "0", f) /\ Ahead = 0) =>
             /\ req'[r].pc = "done"
             /\ req'[r].resp = Answer(400, "No changes were committed")
             /\ ~LogHas(req'[r], "push")
             /\ ~LogHas(req'[r], "pr")
             /\ UNCHANGED <<remote, prs>>]_vars

\* C3 as amended: when the agent exits 0 and the checked-out branch starts
\* with claude/ and has no commit that is not on master, the request is
\* answered 400 and neither the push nor the pull-request call is made.
C3_ZeroCommitsOnClaudeBranchIs400 ==
    [][\A r \in Slots, f \in {"none", "push"} :
          (AgentExit(r, "0", f) /\ startsWith(HEAD, CLAUDE_PREFIX) /\ Ahead = 0) =>
             /\ req'[r].pc = "done"
             /\ req'[r].resp = Answer(400, "No changes were committed")
             /\ ~LogHas(req'[r], "push")
             /\ ~LogHas(req'[r], "pr")
             /\ UNCHANGED <<remote, prs>>]_vars

C3_Witness ==
    \E r \in Slots :
        /\ req[r].pc = "done"
        /\ req[r].resp = Answer(400, "No changes were committed")
        /\ req[r].commitCount = 0
        /\ startsWith(req[r].currentBranch, CLAUDE_PREFIX)

\* C4: when the agent process exits with a non-zero status, is killed or
\* cannot be spawned, the request is answered 500 in that step, and the
\* safety check, the push and the pull-request call are not executed for it.
C4_AgentFailureIs500 ==
    [][\A r \in Slots, o \in AgentOutcomes \ {"0"} :
          AgentExit(r, o, "none") =>
             /\ req'[r].pc = "done"
             /\ Len(req'[r].resp) = 1
             /\ req'[r].resp[1].status = 500
             /\ ~LogHas(req'[r], "getbranch")
             /\ ~LogHas(req'[r], "count")
             /\ ~LogHas(req'[r], "push")
             /\ ~LogHas(req'[r], "pr")
             /\ UNCHANGED <<HEAD, branches, remote, prs>>]_vars

C4_Witness ==
    \E r \in Slots :
        /\ req[r].pc = "done"
        /\ req[r].resp = Answer(500, "Claude Code exited")
        /\ req[r].log[Len(req[r].log)] \in {"agent", "cleanup"}
        /\ req[r].currentBranch = <<>>

\* C5 as stated: when the handling of a request that carried attachments
\* finishes, the attachment directory does not exist, whatever the outcome
\* and wherever the failure occurred.
C5_Original_DirRemovedAtEnd ==
    [][\A r \in Slots :
          (req[r].pc # "done" /\ req'[r].pc = "done" /\ Len(req'[r].images) > 0) =>
             ~tempDir']_vars

\* C6: the working directory is not locked.  While one request's agent is
\* running, a second request whose body has arrived can run its handler at
\* once, and that handler checks out and resets master under the agent.
\* (The witness is the race itself: the first request pushes, and opens a
\* pull request for, the branch that the second request created.)
C6_NoWorkingDirectoryLock ==
    \A r \in Slots : \A q \in Slots \ {r} :
        (req[r].pc = "agent" /\ req[q].pc = "body") =>
            ENABLED (/\ End(q, [parsed |-> TRUE, type |-> "string",
                                request |-> <<"F", "i", "x", " ", "_", "a", "!">>,
                                images |-> <<>>], "none")
                     /\ HEAD' = MASTER
                     /\ req'[q].pc = "naming")

C6_Witness ==
    \E r \in Slots : \E q \in Slots \ {r} :
        /\ req[r].pc = "done"
        /\ Len(req[r].resp) = 1
        /\ req[r].resp[1].status = 200
        /\ req[r].resp[1].branch = req[q].branchName
        /\ req[r].branchName # req[q].branchName
        /\ req[q].branchName \in DOMAIN remote
        /\ \E i \in DOMAIN prs : prs[i] = req[q].branchName

\* C7: among the rate-limit checks made for one address while one window is
\* current (none of them later than the window length after windowStart),
\* the first five are allowed and every later one is denied with 429.
C7_FiveThenDenied ==
    [][arrivals' # arrivals =>
       \A m \in {n \in Incoming : n[2] = ValidHeader /\ ~Preflight(n[1]) /\ ~Health(n[1])} :
       \A r \in Slots, ip \in IPs :
          Server(r, m[1][1], m[1][2], m[2], ip) =>
             LET current == /\ ip \in DOMAIN rateLimitMap
                            /\ now - rateLimitMap[ip].windowStart <= 24 * 60 * 60 * 1000
                 k == IF current THEN checkLog[ip].checks + 1 ELSE 1
             IN  /\ checkLog'[ip].checks = k
                 /\ k <= 5 => /\ req'[r].resp # Answer(429, "Too many requests")
                              /\ LogHas(req'[r], "rate")
                              /\ rateLimitMap'[ip].count = k
                 /\ k > 5 => /\ req'[r].pc = "done"
                             /\ req'[r].resp = Answer(429, "Too many requests")
                             /\ ~LogHas(req'[r], "rate")]_vars

C7_Witness ==
    \E ip \in IPs, r \in Slots :
        /\ checkLog[ip].checks = 6
        /\ req[r].pc = "done"
        /\ req[r].resp = Answer(429, "Too many requests")

\* C8: a rate-limit check made for an address whose window has elapsed (more
\* than the window length after windowStart) is allowed and leaves that
\* address with the record {windowStart: now, count: 1}.
C8_ElapsedWindowRestarts ==
    [][arrivals' # arrivals =>
       \A m \in {n \in Incoming : n[2] = ValidHeader /\ ~Preflight(n[1]) /\ ~Health(n[1])} :
       \A r \in Slots, ip \in IPs :
          (/\ ip \in DOMAIN rateLimitMap
           /\ now - rateLimitMap[ip].windowStart > 24 * 60 * 60 * 1000
           /\ Server(r, m[1][1], m[1][2], m[2], ip)) =>
             /\ req'[r].resp # Answer(429, "Too many requests")
             /\ LogHas(req'[r], "rate")
             /\ rateLimitMap'[ip] = [windowStart |-> now, count |-> 1]
             /\ \A other \in DOMAIN rateLimitMap \ {ip} :
                   rateLimitMap'[other] = rateLimitMap[other]]_vars

C8_Witness ==
    \E ip \in DOMAIN rateLimitMap :
        /\ checkLog[ip].restarted
        /\ rateLimitMap[ip] = [windowStart |-> now, count |-> 1]
        /\ now > 24 * 60 * 60 * 1000

\* C9: every record of the rate-limit map has a count of at least 1 and at
\* most the limit of five.
C9_CountBetweenOneAndMax ==
    \A ip \in DOMAIN rateLimitMap :
        /\ rateLimitMap[ip].count >= 1
        /\ rateLimitMap[ip].count <= 5

C9_Witness ==
    \E ip \in DOMAIN rateLimitMap :
        /\ rateLimitMap[ip].count = 5
        /\ checkLog[ip].denied
        /\ now - rateLimitMap[ip].windowStart <= 24 * 60 * 60 * 1000

\* The pipeline acts for a request only between the arrival of its body and
\* its response, and a request gets there only through the gate, with the
\* expected bearer token and an allowed rate-limit check, in that order.
PipelineOnlyBehindGate ==
    /\ \A r \in Slots :
          /\ (req[r].pc # "body" /\ req'[r].pc = "body") =>
                \E m \in Incoming, ip \in PipelineIPs :
                   /\ m[2] = ValidHeader
                   /\ Server(r, m[1][1], m[1][2], m[2], ip)
                   /\ \/ ip \notin DOMAIN rateLimitMap
                      \/ now - rateLimitMap[ip].windowStart > 24 * 60 * 60 * 1000
                      \/ rateLimitMap[ip].count < 5
                   /\ req'[r].log = <<"auth", "rate">>
          /\ req'[r].pc \in {"naming", "agent", "pr"} =>
                req[r].pc \in {"body", "naming", "agent", "pr"}
          /\ (\E i \in DOMAIN req'[r].log : req'[r].log[i] \notin {"auth", "rate"}) =>
                /\ Len(req'[r].log) > 2
                /\ req'[r].log[1] = "auth"
                /\ req'[r].log[2] = "rate"
                /\ req[r].pc \in {"body", "naming", "agent", "pr", "done"}
    /\ <<HEAD, branches, remote, prs, tempDir, tempFiles>>' #
       <<HEAD, branches, remote, prs, tempDir, tempFiles>> =>
          \E r \in Slots : req[r].pc \in {"body", "naming", "agent", "pr"}

\* The request that arrived in this step was answered 401 before anything was
\* logged for it, and the rate-limit map is as it was.
Refused401(r) ==
    /\ req'[r].pc = "done"
    /\ req'[r].resp = Answer(401, "Unauthorized")
    /\ req'[r].log = <<>>
    /\ rateLimitMap' = rateLimitMap

\* C10 as stated: no pipeline stage runs for a request that has not passed
\* the bearer-token check and then the rate-limit check; a request with a
\* missing or wrong bearer token is answered 401 and leaves the rate-limit
\* map as it was.
C10_Original_GateBeforePipeline ==
    [][/\ PipelineOnlyBehindGate
       /\ arrivals' # arrivals =>
             \A m \in {n \in Incoming : n[2] # ValidHeader} :
             \A r \in Slots, ip \in PipelineIPs :
                Server(r, m[1][1], m[1][2], m[2], ip) => Refused401(r)]_vars

\* C10 as amended: no pipeline stage runs for a request that has not passed
\* the bearer-token check and then the rate-limit check; a request other
\* than OPTIONS and GET /health with a missing or wrong bearer token is
\* answered 401 and leaves the rate-limit map as it was.
C10_GateBeforePipeline ==
    [][/\ PipelineOnlyBehindGate
       /\ arrivals' # arrivals =>
             \A m \in {n \in Incoming : n[2] # ValidHeader /\ ~Preflight(n[1]) /\ ~Health(n[1])} :
             \A r \in Slots, ip \in PipelineIPs :
                Server(r, m[1][1], m[1][2], m[2], ip) => Refused401(r)]_vars

C10_Witness ==
    \E r \in Slots : \E q \in Slots \ {r} :
        /\ req[r].pc = "done"
        /\ req[r].resp = Answer(401, "Unauthorized")
        /\ req[q].pc = "agent"
        /\ DOMAIN rateLimitMap = {"10.0.0.1"}
        /\ rateLimitMap["10.0.0.1"].count = 1

\* The stages a request's handler has executed, without the cleanup of the
\* finally block (which is not a stage of the pipeline).
Stages(rec) == SelectSeq(rec.log, LAMBDA x : x # "cleanup")
ValidBodies == {b \in Bodies : b.parsed /\ b.type = "string" /\ b.request # <<>>}

\* The step ended request r in the stage named last: one 500 response with
\* an error message, and no stage logged after that one.
AbortedAt(r, last) ==
    /\ req'[r].pc = "done"
    /\ Len(req'[r].resp) = 1
    /\ req'[r].resp[1].status = 500
    /\ req'[r].resp[1].error # ""
    /\ Stages(req'[r])[Len(Stages(req'[r]))] = last

\* C11: a failure of git fetch, checkout or reset, of the branch creation,
\* of the agent run, of the safety check, of the push or of the pull-request
\* call ends the request in that step with a 500 response carrying an error
\* message; the failing stage is the last one executed for the request, and
\* nothing is executed for an answered request afterwards.
C11_StageFailureAborts ==
    [][\A r \in Slots :
          IF req'[r].pc = req[r].pc THEN TRUE
          ELSE IF req[r].pc = "body" THEN
             \A b \in ValidBodies, f \in {"fetch", "checkout", "reset"} :
                (~(Len(b.images) > 0 /\ saveImages(b.images, World, r).threw)
                 /\ ready /\ End(r, b, f)) =>
                   /\ AbortedAt(r, f)
                   /\ UNCHANGED <<remote, prs>>
                   /\ DOMAIN branches' = DOMAIN branches
          ELSE IF req[r].pc = "naming" THEN
             \A c \in {0, 1}, o \in NameOutputs :
                NameDone(r, c, o, TRUE) =>
                   AbortedAt(r, "branch") /\ UNCHANGED <<HEAD, branches, remote, prs>>
          ELSE IF req[r].pc = "agent" THEN
             /\ \A o \in AgentOutcomes \ {"0"} :
                   AgentExit(r, o, "none") =>
                      AbortedAt(r, "agent") /\ UNCHANGED <<HEAD, branches, remote, prs>>
             /\ (AgentExit(r, "0", "none") /\ ~startsWith(HEAD, CLAUDE_PREFIX)) =>
                   AbortedAt(r, "getbranch") /\ UNCHANGED <<HEAD, branches, remote, prs>>
             /\ (AgentExit(r, "0", "push") /\ startsWith(HEAD, CLAUDE_PREFIX) /\ Ahead > 0) =>
                   AbortedAt(r, "push") /\ UNCHANGED <<HEAD, branches, remote, prs>>
          ELSE IF req[r].pc = "pr" THEN
             \A o \in PROutcomes \ {"created"} :
                PRDone(r, o) =>
                   AbortedAt(r, "pr") /\ UNCHANGED <<HEAD, branches, remote, prs>>
          ELSE \* an answered request changes only when its slot is taken again
             req[r].pc = "done" => arrivals' = arrivals + 1]_vars

C11_Witness ==
    \E r \in Slots :
        /\ req[r].pc = "done"
        /\ req[r].resp = Answer(500, "git")
        /\ Stages(req[r])[Len(Stages(req[r]))] = "push"
        /\ req[r].currentBranch \notin DOMAIN remote
        /\ req[r].commitCount > 0

\* The number of times a stage was executed for a request.
RunsOf(rec, stage) == Cardinality({i \in DOMAIN rec.log : rec.log[i] = stage})

\* C12: a request reaches the branch creation only from a handler step in
\* which git fetch, git checkout master and git reset --hard all succeeded;
\* when one of the three fails the request is answered 500 in that step, no
\* branch is created, the agent is not started, and none of the three
\* commands is run a second time for the request.
C12_BranchOnlyAfterSync ==
    [][\A r \in Slots :
          /\ (req[r].pc = "body" /\ req'[r].pc # "body") =>
                \A b \in ValidBodies, f \in {"fetch", "checkout", "reset"} :
                   (~(Len(b.images) > 0 /\ saveImages(b.images, World, r).threw)
                    /\ ready /\ End(r, b, f)) =>
                      /\ req'[r].pc = "done"
                      /\ Len(req'[r].resp) = 1
                      /\ req'[r].resp[1].status = 500
                      /\ DOMAIN branches' = DOMAIN branches
                      /\ req'[r].branchName = <<>>
                      /\ ~LogHas(req'[r], "name")
                      /\ ~LogHas(req'[r], "branch")
                      /\ ~LogHas(req'[r], "agent")
                      /\ \A g \in {"fetch", "checkout", "reset"} : RunsOf(req'[r], g) <= 1
          /\ (req[r].pc # "naming" /\ req'[r].pc = "naming") =>
                /\ req[r].pc = "body"
                /\ HEAD' = MASTER
                /\ branches'[MASTER] = {}
                /\ DOMAIN branches' = DOMAIN branches
                /\ \E b \in ValidBodies : End(r, b, "none")
          /\ LogHas(req'[r], "branch") =>
                /\ req[r].pc \in {"naming", "agent", "pr", "done"}
                /\ \E i \in DOMAIN req'[r].log :
                      /\ req'[r].log[i] = "fetch"
                      /\ req'[r].log[i + 1] = "checkout"
                      /\ req'[r].log[i + 2] = "reset"
                      /\ req'[r].log[i + 3] = "name"
                      /\ req'[r].log[i + 4] = "branch"
                /\ \A g \in {"fetch", "checkout", "reset"} : RunsOf(req'[r], g) = 1]_vars

C12_Witness ==
    \E r \in Slots :
        /\ req[r].pc = "done"
        /\ req[r].resp = Answer(500, "git")
        /\ Stages(req[r])[Len(Stages(req[r]))] = "reset"
        /\ req[r].branchName = <<>>
        /\ \E q \in Slots \ {r} : req[q].pc = "agent" /\ LogHas(req[q], "reset")

IsPrefix(a, b) == Len(a) <= Len(b) /\ SubSeq(b, 1, Len(a)) = a
\* The pipeline stages executed for a request, after the gate and the
\* readiness check.
PipelineStages(rec) ==
    SelectSeq(rec.log, LAMBDA x : x \notin {"auth", "rate", "ready", "cleanup"})
SyncToPublish ==
    <<"fetch", "checkout", "reset", "name", "branch", "agent", "getbranch", "count",
      "push", "pr">>

\* C13 as stated: the stages executed for a request are, in this order, the
\* synchronizer (fetch, checkout, reset), the branch namer and the branch
\* creation, the attachment save when there are attachments, the agent, the
\* safety check with the commit count, the push and the pull-request call;
\* no attachment is saved before the synchronizer has completed.
C13_Original_SaveAfterBranch ==
    \A r \in Slots :
        IsPrefix(PipelineStages(req[r]),
                 IF Len(req[r].images) > 0
                 THEN <<"fetch", "checkout", "reset", "name", "branch", "save", "agent",
                        "getbranch", "count", "push", "pr">>
                 ELSE SyncToPublish)

\* C13 as amended: the stages executed for a request are, in this order, the
\* attachment save when there are attachments, the synchronizer (fetch,
\* checkout, reset), the branch namer and the branch creation, the agent,
\* the safety check with the commit count, the push and the pull-request
\* call; the attachments are saved before the synchronizer starts.
C13_SaveThenSyncThenBranch ==
    \A r \in Slots :
        IsPrefix(PipelineStages(req[r]),
                 IF Len(req[r].images) > 0 THEN <<"save">> \o SyncToPublish
                 ELSE SyncToPublish)

C13_Witness ==
    \E r \in Slots :
        /\ req[r].pc = "pr"
        /\ Len(req[r].images) > 0
        /\ PipelineStages(req[r]) = <<"save">> \o SyncToPublish
        /\ tempDir

\* C14: a change request is answered 200 only after its own push and its
\* own pull-request call succeeded; the branch of the response is the branch
\* the request verified (claude/ prefix, commits beyond master) and pushed,
\* it is the source branch of the pull request, and the pr of the response
\* is the link the forge returned for that pull request.
C14_OkOnlyAfterPushAndPR ==
    \A r \in Slots :
        \A i \in DOMAIN req[r].resp :
            (req[r].resp[i].status = 200 /\ req[r].log # <<>>) =>
                /\ req[r].pc = "done"
                /\ Len(req[r].resp) = 1
                /\ IsPrefix(SyncToPublish,
                            SelectSeq(req[r].log,
                                      LAMBDA x : x \notin {"auth", "rate", "ready", "save",
                                                           "cleanup"}))
                /\ req[r].resp[i].branch = req[r].currentBranch
                /\ startsWith(req[r].resp[i].branch, CLAUDE_PREFIX)
                /\ req[r].commitCount > 0
                /\ req[r].resp[i].branch \in DOMAIN remote
                /\ req[r].resp[i].pr \in DOMAIN prs
                /\ prs[req[r].resp[i].pr] = req[r].resp[i].branch

C14_Witness ==
    \E r \in Slots :
        /\ req[r].pc = "done"
        /\ Len(req[r].resp) = 1
        /\ req[r].resp[1].status = 200
        /\ req[r].resp[1].branch = req[r].branchName
        /\ req[r].resp[1].pr = 1
        /\ prs = <<req[r].branchName>>

\* C15: when the pull-request call fails after the push (a non-2xx answer
\* or a network error), the request is answered 500 with the error's text
\* (the forge's for a non-2xx answer), nothing is undone, and the pushed
\* branch stays on the remote without a pull request having been created.
C15_FailedPRLeavesBranch ==
    [][\A r \in Slots :
          (req[r].pc = "pr" /\ req'[r].pc # "pr") =>
             \A o \in {"rejected", "network"} :
                PRDone(r, o) =>
                   /\ req'[r].pc = "done"
                   /\ req'[r].resp =
                         Answer(500, IF o = "rejected" THEN "Bitbucket API error"
                                     ELSE "fetch failed")
                   /\ req[r].currentBranch \in DOMAIN remote
                   /\ remote' = remote
                   /\ prs' = prs
                   /\ HEAD' = HEAD
                   /\ branches' = branches]_vars

C15_Witness ==
    \E r \in Slots :
        /\ req[r].pc = "done"
        /\ req[r].resp = Answer(500, "Bitbucket API error")
        /\ req[r].currentBranch \in DOMAIN remote
        /\ prs = <<>>

\* C16: while the readiness marker is absent, the "end" handler of every
\* POST / that passed the gate answers 503, and no attachment is saved and
\* no git command, agent run, push or pull-request call happens; once the
\* marker is present the handler no longer answers 503.
C16_NotReadyIs503 ==
    [][/\ ~ready =>
             /\ UNCHANGED <<HEAD, branches, commits, remote, prs, tempDir, tempFiles>>
             /\ \A r \in Slots : PipelineStages(req'[r]) = <<>>
       /\ \A r \in Slots :
             (req[r].pc = "body" /\ req'[r].pc # "body") =>
                \A b \in Bodies :
                   \A f \in EndFaults(b) :
                      End(r, b, f) =>
                         IF ~ready
                         THEN /\ req'[r].pc = "done"
                              /\ req'[r].resp = Answer(503, "Repository is still cloning")
                         ELSE \A i \in DOMAIN req'[r].resp : req'[r].resp[i].status # 503]_vars

C16_Witness ==
    \E r \in Slots :
        \E q \in Slots \ {r} :
            /\ req[r].resp = Answer(503, "Repository is still cloning")
            /\ req[r].log = <<"auth", "rate">>
            /\ ready
            /\ req[q].pc = "naming"

\* C17 as stated: with the repository ready, a POST / whose body has no
\* non-empty string request field (missing, empty, not a string, or a body
\* that cannot be parsed) is answered 400 with an error, and no attachment
\* is saved and no git command, agent run or push happens for it.
C17_Original_BadBodyIs400 ==
    [][\A r \in Slots :
          (req[r].pc = "body" /\ req'[r].pc # "body" /\ ready) =>
             \A b \in Bodies \ ValidBodies :
                End(r, b, "none") =>
                   /\ req'[r].pc = "done"
                   /\ Len(req'[r].resp) = 1
                   /\ req'[r].resp[1].status = 400
                   /\ req'[r].resp[1].error # ""
                   /\ PipelineStages(req'[r]) = <<>>
                   /\ UNCHANGED <<HEAD, branches, remote, prs, tempDir, tempFiles>>]_vars

\* C18: an OPTIONS request on any path is answered 204 and a GET /health
\* is answered 200 whatever its Authorization header is; handling either
\* leaves the rate-limit table unchanged and starts no pipeline stage.
OpenPaths == {"/", "/health", "/other"}
C18_PreflightAndHealthAreOpen ==
    [][arrivals' # arrivals =>
          \A r \in {x \in Slots : req[x].pc \in {"idle", "done"}}, h \in AuthHeaders,
             ip \in PipelineIPs :
             /\ \A p \in OpenPaths :
                   Server(r, "OPTIONS", p, h, ip) =>
                      /\ req'[r].pc = "done"
                      /\ req'[r].resp = Answer(204, "")
                      /\ req'[r].log = <<>>
                      /\ UNCHANGED <<rateLimitMap, checkLog, repo, forge, temp>>
             /\ Server(r, "GET", "/health", h, ip) =>
                   /\ req'[r].pc = "done"
                   /\ req'[r].resp = Answer(200, "")
                   /\ req'[r].log = <<>>
                   /\ UNCHANGED <<rateLimitMap, checkLog, repo, forge, temp>>]_vars

C18_Witness ==
    \E r \in Slots :
        /\ req[r].pc = "done"
        /\ req[r].resp = Answer(200, "")
        /\ req[r].log = <<>>
        /\ \E ip \in DOMAIN rateLimitMap : rateLimitMap[ip].count = 1

\* The form of a branch name, read off the string itself: what lies between
\* claude/ and the last hyphen, and the number written after that hyphen.
DecimalDigits == <<"0", "1", "2", "3", "4", "5", "6", "7", "8", "9">>
IsDigit(c) == \E d \in DOMAIN DecimalDigits : DecimalDigits[d] = c
IsSlugChar(c) ==
    \/ IsDigit(c)
    \/ c = "-"
    \/ c \in {"a", "b", "c", "d", "e", "f", "g", "h", "i", "j", "k", "l", "m",
              "n", "o", "p", "q", "r", "s", "t", "u", "v", "w", "x", "y", "z"}
LastHyphen(name) ==
    IF \E i \in DOMAIN name : name[i] = "-"
    THEN CHOOSE i \in DOMAIN name : name[i] = "-" /\ \A j \in (i + 1)..Len(name) : name[j] # "-"
    ELSE 0
SlugOf(name) == SubSeq(name, Len(CLAUDE_PREFIX) + 1, LastHyphen(name) - 1)
SuffixOf(name) == SubSeq(name, LastHyphen(name) + 1, Len(name))
RECURSIVE DecimalValue(_)
DecimalValue(digits) ==
    IF digits = <<>> THEN 0
    ELSE 10 * DecimalValue(SubSeq(digits, 1, Len(digits) - 1))
         + (CHOOSE d \in DOMAIN DecimalDigits : DecimalDigits[d] = digits[Len(digits)]) - 1
WellFormed(name, t) ==
    /\ startsWith(name, CLAUDE_PREFIX)
    /\ LastHyphen(name) > Len(CLAUDE_PREFIX)
    /\ SuffixOf(name) # <<>>
    /\ \A i \in DOMAIN SuffixOf(name) : IsDigit(SuffixOf(name)[i])
    /\ Len(SuffixOf(name)) > 1 => SuffixOf(name)[1] # "0"
    /\ DecimalValue(SuffixOf(name)) = t
    /\ name = CLAUDE_PREFIX \o SlugOf(name) \o <<"-">> \o SuffixOf(name)
    /\ \A i \in DOMAIN SlugOf(name) : IsSlugChar(SlugOf(name)[i])
    /\ Len(SlugOf(name)) <= 50
    /\ SlugOf(name) # <<>> => SlugOf(name)[1] # "-"
    /\ \A i \in 1..(Len(SlugOf(name)) - 1) :
          ~(SlugOf(name)[i] = "-" /\ SlugOf(name)[i + 1] = "-")

\* C19: for every request text, the name of the branch the pipeline creates
\* is claude/, a slug, a hyphen and the clock's milliseconds in decimal; the
\* slug has only characters of [a-z0-9-], at most 50 of them (possibly
\* none), no hyphen in front and no two hyphens in a row. This holds for the
\* name built from the naming subprocess or its fallback, and for the name
\* the GitHub server builds from the request text alone.
C19_BranchNameForm ==
    \A r \in Slots :
        /\ req[r].branchName # <<>> => WellFormed(req[r].branchName, req[r].namedAt)
        /\ WellFormed(branchName_GitHub(req[r].request, now), now)

C19_Witness ==
    \E r \in Slots :
        /\ req[r].pc = "agent"
        /\ req[r].namedAt = 12
        /\ Len(SlugOf(req[r].branchName)) = 40
        /\ SlugOf(req[r].branchName)[40] = "-"
        /\ Len(slugify(req[r].request)) > 50
        /\ Len(SlugOf(branchName_GitHub(req[r].request, now))) = 50

\* C20: whatever the two request texts are (the same or not, with digits
\* and hyphens in their slugs or not), two branch names built at two
\* different clock values are different strings; so a branch creation is
\* never refused because a request stamped at another millisecond already
\* took the name.
C20_DistinctTimesDistinctNames ==
    \A r \in Slots :
        \A q \in Slots \ {r} :
            (req[r].namedAt >= 0 /\ req[q].namedAt >= 0
             /\ req[r].namedAt # req[q].namedAt) =>
                /\ req[r].branchName # <<>>
                /\ req[q].branchName # <<>>
                /\ req[r].branchName # req[q].branchName
                /\ branchName_GitHub(req[r].request, req[r].namedAt)
                      # branchName_GitHub(req[q].request, req[q].namedAt)

C20_Witness ==
    \E r \in Slots :
        \E q \in Slots \ {r} :
            /\ req[r].request = <<"a", "-", "1">>
            /\ req[r].namedAt = 2
            /\ req[r].branchName = CLAUDE_PREFIX \o <<"a", "-", "1", "-", "2">>
            /\ req[q].request = <<"a">>
            /\ req[q].namedAt = 12
            /\ req[q].branchName = CLAUDE_PREFIX \o <<"a", "-", "1", "2">>

\* C21: the naming subprocess never fails the request. Whatever its
\* outcome (exit 0 with a usable name, exit 0 with output that slugifies to
\* nothing, a non-zero exit, a spawn error), the handler goes on to create a
\* branch; in every outcome but the first the slug of that branch is the
\* slug of the request text itself, cut to 30 characters.
Usable(code, stdout) == code = 0 /\ slugify(trim(stdout)) # <<>>
C21_NamingNeverFails ==
    [][\A r \in Slots :
          (req[r].pc = "naming" /\ req'[r].pc # "naming") =>
             \A c \in NameCodes, o \in NameStdouts :
                NameDone(r, c, o, FALSE) =>
                   /\ LogHas(req'[r], "branch")
                   /\ req'[r].namedAt = now
                   /\ req'[r].pc = "done" =>
                         \E q \in Slots \ {r} :
                            req[q].namedAt = now /\ req[q].branchName \in DOMAIN branches
                   /\ req'[r].pc # "done" =>
                         /\ req'[r].pc = "agent"
                         /\ HEAD' = req'[r].branchName
                         /\ startsWith(req'[r].branchName, CLAUDE_PREFIX)
                         /\ SuffixOf(req'[r].branchName) = ToDigits(now)
                         /\ ~Usable(c, o) =>
                               SlugOf(req'[r].branchName)
                                  = substring(slugify(req[r].request), 30)]_vars

C21_Witness ==
    \E r \in Slots :
        /\ req[r].pc = "agent"
        /\ req[r].request = Repeat(<<"a", "b", " ">>, 18)
        /\ SlugOf(req[r].branchName) = Repeat(<<"a", "b", "-">>, 10)
        /\ req[r].namedAt = 1

\* C22 as stated: when the synchronizer has completed and the request's
\* branch has been created, with no other request in flight, the new branch
\* is at the remote baseline's tip and nothing an earlier run left in the
\* working directory (commits, uncommitted edits, untracked files) is there
\* when the agent starts.
C22_Original_CleanBaseline ==
    [][\A r \in Slots :
          (/\ req[r].pc = "naming"
           /\ req'[r].pc = "agent"
           /\ \A q \in Slots \ {r} : req[q].pc = "idle") =>
             /\ HEAD' = req'[r].branchName
             /\ branches'[HEAD'] = {}
             /\ worktree' = {}]_vars

\* C23 as stated: from the moment a request has saved its attachment files
\* until its own agent run has finished, the files are present and are the
\* ones it wrote; no other request's save or cleanup removes or overwrites
\* them, however two requests with attachments interleave.
HoldsItsFiles(r) ==
    /\ tempDir
    /\ \A i \in DOMAIN req[r].imagePaths :
          /\ req[r].imagePaths[i] \in DOMAIN tempFiles
          /\ tempFiles[req[r].imagePaths[i]] = r
C23_Original_FilesStayUntilAgentEnds ==
    \A r \in Slots :
        (req[r].pc \in {"naming", "agent"} /\ Len(req[r].imagePaths) > 0) => HoldsItsFiles(r)

\* C24: a rate-limit check that is denied leaves the address's record as it
\* was (count and windowStart); an allowed check inside a current window
\* adds exactly one to count and keeps windowStart; and a check for one
\* address never changes, adds or removes the record of another address.
C24_CheckFrame ==
    [][arrivals' # arrivals =>
       \A m \in {n \in Incoming : n[2] = ValidHeader /\ ~Preflight(n[1]) /\ ~Health(n[1])} :
       \A r \in Slots, ip \in IPs :
          Server(r, m[1][1], m[1][2], m[2], ip) =>
             /\ \A other \in IPs \ {ip} :
                   /\ (other \in DOMAIN rateLimitMap') = (other \in DOMAIN rateLimitMap)
                   /\ other \in DOMAIN rateLimitMap =>
                         rateLimitMap'[other] = rateLimitMap[other]
             /\ req'[r].resp = Answer(429, "Too many requests") =>
                   /\ rateLimitMap' = rateLimitMap
                   /\ ip \in DOMAIN rateLimitMap
             /\ (/\ req'[r].resp # Answer(429, "Too many requests")
                 /\ ip \in DOMAIN rateLimitMap
                 /\ now - rateLimitMap[ip].windowStart <= 24 * 60 * 60 * 1000) =>
                   /\ rateLimitMap'[ip].count = rateLimitMap[ip].count + 1
                   /\ rateLimitMap'[ip].windowStart = rateLimitMap[ip].windowStart]_vars

C24_Witness ==
    \E ip \in DOMAIN rateLimitMap :
        \E other \in DOMAIN rateLimitMap \ {ip} :
            /\ rateLimitMap[ip].count = 4
            /\ checkLog[ip].checks = 4
            /\ rateLimitMap[other].count = 2
            /\ rateLimitMap[other].windowStart > rateLimitMap[ip].windowStart
            /\ now - rateLimitMap[ip].windowStart <= 24 * 60 * 60 * 1000

\* C25 as stated: whatever the name of an attachment is (path separators
\* and ".." included), the file saveImages writes for it and the path handed
\* to the agent lie inside the attachment directory, so removing that
\* directory removes every file the request wrote.
C25_Original_FilesInsideDir ==
    /\ \A name \in DOMAIN tempFiles : InsideTempDir(name)
    /\ \A r \in Slots :
          \A i \in DOMAIN req[r].imagePaths : InsideTempDir(req[r].imagePaths[i])
    /\ ~tempDir => tempFiles = NoFiles

\* C26: within one request the read of the current branch, the commit
\* count and the push are one uninterrupted step: no state lies between the
\* safety check and the push in which another request's step could run, and
\* the branch pushed is the branch that was read and verified.
C26_CheckAndPushAreOneStep ==
    \A r \in Slots :
        /\ LogHas(req[r], "getbranch") => req[r].pc \in {"pr", "done"}
        /\ (LogHas(req[r], "count") /\ req[r].pc # "done") => LogHas(req[r], "push")
        /\ req[r].pc = "pr" =>
              /\ req[r].log[Len(req[r].log)] = "pr"
              /\ startsWith(req[r].currentBranch, CLAUDE_PREFIX)
              /\ req[r].commitCount > 0
              /\ req[r].currentBranch \in DOMAIN remote
              /\ req[r].currentBranch \in DOMAIN branches
              /\ Cardinality(remote[req[r].currentBranch]) >= req[r].commitCount

C26_Witness ==
    \E r \in Slots :
        \E q \in Slots \ {r} :
            /\ req[r].pc = "pr"
            /\ req[q].pc = "agent"
            /\ req[r].currentBranch = req[q].branchName
            /\ req[r].currentBranch # req[r].branchName
            /\ DOMAIN remote = {req[q].branchName}

\* C27: for one client address and any time interval as long as the window,
\* the number of allowed checks inside the interval is at most twice the
\* limit (10): a burst can pass at a window boundary, but never more than
\* two windows' worth.
AllowedWithin(ip, from) ==
    Cardinality({i \in DOMAIN checkLog[ip].allowedAt :
                    /\ checkLog[ip].allowedAt[i] >= from
                    /\ checkLog[ip].allowedAt[i] <= from + 24 * 60 * 60 * 1000})
C27_AtMostTwoWindowsWorth ==
    \A ip \in IPs :
        checkLog[ip].tracked =>
            \A from \in GateTimes : AllowedWithin(ip, from) <= 2 * 5

C27_Witness ==
    \E ip \in IPs :
        /\ checkLog[ip].tracked
        /\ AllowedWithin(ip, 1) = 9
        /\ checkLog[ip].restarted
        /\ rateLimitMap[ip].count = 5

\* C28: every request with the valid bearer token that is neither OPTIONS
\* nor GET /health is counted by the rate limiter before it is routed and
\* before its body is looked at: a request that ends in 404, 400 or 503
\* takes one unit of the address's quota exactly as a request that runs the
\* pipeline does, and nothing gives the unit back afterwards.
Counted(ip) ==
    IF ip \notin DOMAIN rateLimitMap \/ now - rateLimitMap[ip].windowStart > 24 * 60 * 60 * 1000
    THEN (ip :> [windowStart |-> now, count |-> 1]) @@ rateLimitMap
    ELSE IF rateLimitMap[ip].count >= 5 THEN rateLimitMap
    ELSE [rateLimitMap EXCEPT ![ip].count = rateLimitMap[ip].count + 1]
C28_CountedBeforeRouting ==
    [][/\ arrivals' = arrivals => rateLimitMap' = rateLimitMap
       /\ arrivals' # arrivals =>
             \A m \in {n \in Incoming : n[2] = ValidHeader /\ ~Preflight(n[1]) /\ ~Health(n[1])} :
             \A r \in {x \in Slots : req[x].pc \in {"idle", "done"}}, ip \in PipelineIPs :
                Server(r, m[1][1], m[1][2], m[2], ip) =>
                   /\ rateLimitMap' = Counted(ip)
                   /\ req'[r].resp # Answer(429, "Too many requests") =>
                         /\ req'[r].log = <<"auth", "rate">>
                         /\ IF m[1] = <<"POST", "/">>
                            THEN req'[r].pc = "body"
                            ELSE req'[r].resp = Answer(404, "Not found")]_vars

C28_Witness ==
    \E r \in Slots :
        \E q \in Slots \ {r} :
            /\ req[r].resp = Answer(404, "Not found")
            /\ req[q].resp = Answer(400, "Missing or invalid request field")
            /\ rateLimitMap["10.0.0.1"].count = 2

\* C29: a request gets at most one response, and once it has its response
\* none of its git, agent, push or pull-request steps runs: the only thing
\* its handler does after answering is the attachment cleanup.
C29_OneResponseThenNothing ==
    [][\A r \in Slots :
          /\ Len(req'[r].resp) <= 1
          /\ (req'[r].pc = "done") = (Len(req'[r].resp) = 1)
          /\ (req[r].pc = "done" /\ arrivals' = arrivals) => req'[r] = req[r]
          /\ \A i \in DOMAIN req'[r].log :
                req'[r].log[i] = "cleanup" => (i = Len(req'[r].log) /\ req'[r].pc = "done")]_vars

C29_Witness ==
    \E r \in Slots :
        /\ req[r].pc = "done"
        /\ Len(req[r].resp) = 1
        /\ req[r].resp[1].status = 200
        /\ LogHas(req[r], "pr")
        /\ req[r].log[Len(req[r].log)] = "cleanup"
        /\ ~tempDir

\* C30: when every external call eventually returns or fails, every request
\* whose body has been received and whose handler is waiting (for the naming
\* subprocess, the agent, or the forge) eventually gets its response; and
\* there is no timeout: while its agent subprocess has not exited the
\* request has no response, and only the exit of the agent moves it on.
Waiting(r) == req[r].pc \in {"naming", "agent", "pr"}
C30_EveryRequestIsAnswered ==
    /\ \A r \in Slots : Waiting(r) ~> (req[r].pc = "done" /\ Len(req[r].resp) = 1)
    /\ [](\A r \in Slots : Waiting(r) => req[r].resp = <<>>)
    /\ [][\A r \in Slots :
             (req[r].pc = "agent" /\ req'[r].pc # "agent") =>
                \E o \in AgentOutcomes : \E f \in ExitFaults(o) : AgentExit(r, o, f)]_vars

C30_Witness ==
    \E r \in Slots :
        /\ req[r].pc = "agent"
        /\ req[r].resp = <<>>
        /\ commits = MaxCommits
        /\ \E q \in Slots \ {r} : req[q].pc = "pr"

=============================================================================
